---- MODULE Spec2Model ----
(***************************************************************************)
(* Competitive range analysis of law-school admission odds                 *)
(* (src/analyzer.py), with the data it is fed (src/data_loader.py).        *)
(*                                                                         *)
(* Scores live on an integer grid.  One LSAT unit is one LSAT point; one   *)
(* GPA unit is 0.01 grade points, so GPA_MEDIAN_EPS (0.01) is one unit.    *)
(* An Optional[...] of the source is a sequence of length at most one:     *)
(* None is <<>> and a present value v is <<v>>.  A DataFrame is the bag of *)
(* its rows: no step of the analysis reads the row order (sort_values      *)
(* imposes its own), and selecting rows by a boolean mask is a filter of   *)
(* the bag.                                                                *)
(***************************************************************************)
EXTENDS Integers, Sequences, FiniteSets, Bags, TLC

\* ---- bounds of the model ------------------------------------------------
MaxScore == 5
MaxPool == 2
MaxCascadePool == 3
MaxSamplePool == 11

\* ---- constants of the program --------------------------------------------
GPA_MEDIAN_EPS == 1
ONTIME_CUTOFF == 2

VARIABLES
    pct,        \* the school's SchoolPercentiles (loaded once, read-only)
    lsd,        \* the school's pool of cleaned outcome rows (a DataFrame)
    applicant,  \* Optional: the arguments of the analyze_school call
    analysis,   \* Optional: the SchoolAnalysis it returned
    scenarios   \* the scenario list of the school in the API response

vars == <<pct, lsd, applicant, analysis, scenarios>>

\* ---- Optional values -----------------------------------------------------
None == <<>>
Some(x) == <<x>>

\* ---- data model ----------------------------------------------------------
Scores == 1..MaxScore

\* Values an official percentile takes in the model: a low and a high one,
\* leaving grid points below, between and above them.
PctValues == {2, MaxScore - 1}

OptPct == {None} \cup {Some(v) : v \in PctValues}

ResultGroups ==
    {"accepted", "rejected", "waitlisted", "hold", "no_decision", "unknown"}

\* Timestamps: the day before the cutoff, the cutoff itself, the day after.
Dates == {ONTIME_CUTOFF - 1, ONTIME_CUTOFF, ONTIME_CUTOFF + 1}

OptDate == {None} \cup {Some(d) : d \in Dates}

SchoolPercentiles(g25, g50, l25, l50) ==
    [gpa_25 |-> g25, gpa_50 |-> g50, lsat_25 |-> l25, lsat_50 |-> l50]

Range(lo, up) == [lower |-> lo, upper |-> up]

GroupStats(t, a) == [total |-> t, accepted |-> a]

\* GroupStats.rate: accepted / total * 100 as the exact fraction <<num, den>>.
Rate(g) ==
    IF g.total > 0 THEN Some(<<g.accepted * 100, g.total>>) ELSE None

\* ---- DataFrame operations --------------------------------------------
\* df[mask]: the rows the mask keeps, with their multiplicities.  The mask
\* is given as the set of rows where it is True.
Filter(df, mask) == [r \in DOMAIN df \cap mask |-> df[r]]

\* len(df)
Length(df) == BagCardinality(df)

Repeat(v, n) == [i \in 1..n |-> v]

\* df[c].sort_values(): the column's values in ascending order, as a sequence.
RECURSIVE SortValues(_, _)
SortValues(df, c) ==
    IF DOMAIN df = {} THEN <<>>
    ELSE LET lowest == CHOOSE v \in {r[c] : r \in DOMAIN df} :
                          \A r \in DOMAIN df : v <= r[c]
             is_lowest == {r \in DOMAIN df : r[c] = lowest}
             others == {r \in DOMAIN df : r[c] # lowest}
         IN  Repeat(lowest, Length(Filter(df, is_lowest)))
               \o SortValues(Filter(df, others), c)

\* df["result_group"] == "accepted"
IsAccepted(df) == {r \in DOMAIN df : r.result_group = "accepted"}

\* ---- LSAT range ----------------------------------------------------------
FindLsatFloor(df) ==
    LET accepted_lsats == SortValues(Filter(df, IsAccepted(df)), "lsat")
    IN  IF Len(accepted_lsats) >= 2 THEN Some(accepted_lsats[2])
        ELSE IF Len(accepted_lsats) = 1 THEN Some(accepted_lsats[1])
        ELSE None

\* Mutant of BuildLsatRange: the two outcomes of the floor test exchanged.
BuildLsatRange_FloorSwapped(applicant_lsat, p, df) ==
    IF p.lsat_25 = None \/ p.lsat_50 = None THEN <<None, FALSE>>
    ELSE
      LET p25 == p.lsat_25[1]
          median == p.lsat_50[1]
          at_median == (applicant_lsat = median)
          floor == FindLsatFloor(df)
      IN  IF applicant_lsat > median
            THEN <<Some(Range(median, applicant_lsat)), FALSE>>
          ELSE IF applicant_lsat >= p25
            THEN IF at_median
                   THEN LET upper == IF median - 1 < p25 THEN p25 ELSE median - 1
                        IN  <<Some(Range(p25, upper)), TRUE>>
                   ELSE <<Some(Range(p25, applicant_lsat)), FALSE>>
          ELSE IF floor = None
            THEN <<Some(Range(applicant_lsat, p25)), FALSE>>
          ELSE IF applicant_lsat < floor[1]
            THEN <<Some(Range(applicant_lsat, p25)), FALSE>>
          ELSE <<Some(Range(applicant_lsat, floor[1])), FALSE>>

\* Returns <<range, at_median_flag>>.
BuildLsatRange(applicant_lsat, p, df) ==
    IF p.lsat_25 = None \/ p.lsat_50 = None THEN <<None, FALSE>>
    ELSE
      LET p25 == p.lsat_25[1]
          median == p.lsat_50[1]
          at_median == (applicant_lsat = median)
          floor == FindLsatFloor(df)
      IN  IF applicant_lsat > median
            THEN <<Some(Range(median, applicant_lsat)), FALSE>>
          ELSE IF applicant_lsat >= p25
            THEN IF at_median
                   THEN LET upper == IF median - 1 < p25 THEN p25 ELSE median - 1
                        IN  <<Some(Range(p25, upper)), TRUE>>
                   ELSE <<Some(Range(p25, applicant_lsat)), FALSE>>
          ELSE IF floor = None
            THEN <<Some(Range(applicant_lsat, p25)), FALSE>>
          ELSE IF applicant_lsat >= floor[1]
            THEN <<Some(Range(applicant_lsat, p25)), FALSE>>
          ELSE <<Some(Range(applicant_lsat, floor[1])), FALSE>>

\* Mutant of FindGpaFloor: the lowest accepted GPA, not the second lowest.
FindGpaFloor_Lowest(df) ==
    LET accepted_gpas == SortValues(Filter(df, IsAccepted(df)), "gpa")
    IN  IF Len(accepted_gpas) >= 1 THEN Some(accepted_gpas[1]) ELSE None

\* ---- GPA range -----------------------------------------------------------
FindGpaFloor(df) ==
    LET accepted_gpas == SortValues(Filter(df, IsAccepted(df)), "gpa")
    IN  IF Len(accepted_gpas) >= 2 THEN Some(accepted_gpas[2])
        ELSE IF Len(accepted_gpas) = 1 THEN Some(accepted_gpas[1])
        ELSE None

\* Mutant of BuildGpaRange: the upper bound median - eps is not clamped to
\* the 25th percentile.
BuildGpaRange_NoClamp(applicant_gpa, p, df) ==
    IF p.gpa_25 = None \/ p.gpa_50 = None THEN <<None, FALSE>>
    ELSE
      LET p25 == p.gpa_25[1]
          median == p.gpa_50[1]
          floor == FindGpaFloor(df)
      IN  IF applicant_gpa > median
            THEN <<Some(Range(median, applicant_gpa)), FALSE>>
          ELSE IF applicant_gpa >= p25
            THEN <<Some(Range(p25, median - GPA_MEDIAN_EPS)), FALSE>>
          ELSE IF floor = None
            THEN <<Some(Range(applicant_gpa, p25)), FALSE>>
          ELSE IF applicant_gpa >= floor[1]
            THEN <<Some(Range(applicant_gpa, p25)), FALSE>>
          ELSE <<Some(Range(applicant_gpa, floor[1])), TRUE>>

\* Mutant of BuildGpaRange: between the 25th percentile and the median the
\* range ends at the applicant, as the LSAT range does.
BuildGpaRange_UpToApplicant(applicant_gpa, p, df) ==
    IF p.gpa_25 = None \/ p.gpa_50 = None THEN <<None, FALSE>>
    ELSE
      LET p25 == p.gpa_25[1]
          median == p.gpa_50[1]
          floor == FindGpaFloor(df)
      IN  IF applicant_gpa > median
            THEN <<Some(Range(median, applicant_gpa)), FALSE>>
          ELSE IF applicant_gpa >= p25
            THEN <<Some(Range(p25, applicant_gpa)), FALSE>>
          ELSE IF floor = None
            THEN <<Some(Range(applicant_gpa, p25)), FALSE>>
          ELSE IF applicant_gpa >= floor[1]
            THEN <<Some(Range(applicant_gpa, p25)), FALSE>>
          ELSE <<Some(Range(applicant_gpa, floor[1])), TRUE>>

\* Returns <<range, below_gpa_floor_flag>>.
BuildGpaRange(applicant_gpa, p, df) ==
    IF p.gpa_25 = None \/ p.gpa_50 = None THEN <<None, FALSE>>
    ELSE
      LET p25 == p.gpa_25[1]
          median == p.gpa_50[1]
          floor == FindGpaFloor(df)
      IN  IF applicant_gpa > median
            THEN <<Some(Range(median, applicant_gpa)), FALSE>>
          ELSE IF applicant_gpa >= p25
            THEN LET upper == IF median - GPA_MEDIAN_EPS < p25
                                THEN p25 ELSE median - GPA_MEDIAN_EPS
                 IN  <<Some(Range(p25, upper)), FALSE>>
          ELSE IF floor = None
            THEN <<Some(Range(applicant_gpa, p25)), FALSE>>
          ELSE IF applicant_gpa >= floor[1]
            THEN <<Some(Range(applicant_gpa, p25)), FALSE>>
          ELSE <<Some(Range(applicant_gpa, floor[1])), TRUE>>

\* ---- counting and filtering ---------------------------------------------
Count(df) ==
    LET n == Length(df)
    IN  GroupStats(n, IF n > 0 THEN Length(Filter(df, IsAccepted(df))) ELSE 0)

\* Mutant of Earliest: the row-wise maximum of the date columns.
Earliest_Latest(r) ==
    LET present == {d \in Dates :
                      Some(d) \in {r.sent_at, r.received_at, r.complete_at}}
    IN  IF present = {} THEN None
        ELSE Some(CHOOSE d \in present : \A e \in present : d >= e)

\* Row-wise minimum of the date columns, skipping NaT; NaT if all are NaT.
\* A date column the file lacks behaves as a column of NaT.
Earliest(r) ==
    LET present == {d \in Dates :
                      Some(d) \in {r.sent_at, r.received_at, r.complete_at}}
    IN  IF present = {} THEN None
        ELSE Some(CHOOSE d \in present : \A e \in present : d <= e)

FilterOnTime(df) ==
    LET mask == {r \in DOMAIN df :
                   Earliest(r) = None \/ Earliest(r)[1] <= ONTIME_CUTOFF}
    IN  Filter(df, mask)

\* ---- the primary cascade of analyze_school -------------------------------
\* Mutant of InBox: the upper bound of the GPA range is excluded.
InBox_StrictUpper(df, lsat_range, gpa_range) ==
    LET in_box == {r \in DOMAIN df :
                     /\ r.lsat >= lsat_range.lower /\ r.lsat <= lsat_range.upper
                     /\ r.gpa >= gpa_range.lower /\ r.gpa < gpa_range.upper}
    IN  Filter(df, in_box)

InBox(df, lsat_range, gpa_range) ==
    LET in_box == {r \in DOMAIN df :
                     /\ r.lsat >= lsat_range.lower /\ r.lsat <= lsat_range.upper
                     /\ r.gpa >= gpa_range.lower /\ r.gpa <= gpa_range.upper}
    IN  Filter(df, in_box)

Decided(in_box) ==
    Filter(in_box, {r \in DOMAIN in_box : r.result_group # "no_decision"})

\* Mutant of KjdSlice: the filter is symmetric, an applicant who is not KJD
\* keeps only the rows that are not KJD.
KjdSlice_Symmetric(decided, is_kjd) ==
    LET kjd == {r \in DOMAIN decided : r.is_kjd}
        non_kjd == {r \in DOMAIN decided : ~r.is_kjd}
    IN  IF is_kjd THEN Filter(decided, kjd) ELSE Filter(decided, non_kjd)

KjdSlice(decided, is_kjd) ==
    LET kjd == {r \in DOMAIN decided : r.is_kjd}
    IN  IF is_kjd THEN Filter(decided, kjd) ELSE decided

\* Mutant of UrmSlice: an applicant who is not URM keeps every row, as the
\* KJD filter does for an applicant who is not KJD.
UrmSlice_OneWay(kjd_df, is_urm) ==
    LET urm == {r \in DOMAIN kjd_df : r.is_urm}
    IN  IF is_urm THEN Filter(kjd_df, urm) ELSE kjd_df

UrmSlice(kjd_df, is_urm) ==
    LET urm == {r \in DOMAIN kjd_df : r.is_urm}
        non_urm == {r \in DOMAIN kjd_df : ~r.is_urm}
    IN  IF is_urm THEN Filter(kjd_df, urm) ELSE Filter(kjd_df, non_urm)

\* Mutant of Cascade: the URM filter is applied to the decided rows, not to
\* the KJD slice.
Cascade_UrmFromDecided(decided, is_kjd, is_urm) ==
    LET kjd_df == KjdSlice(decided, is_kjd)
        urm_df == UrmSlice(decided, is_urm)
        on_time_df == FilterOnTime(urm_df)
    IN  [total |-> Count(decided), kjd |-> Count(kjd_df),
         urm |-> Count(urm_df), on_time |-> Count(on_time_df)]

\* total -> kjd -> urm -> on_time, each counted.
Cascade(decided, is_kjd, is_urm) ==
    LET kjd_df == KjdSlice(decided, is_kjd)
        urm_df == UrmSlice(kjd_df, is_urm)
        on_time_df == FilterOnTime(urm_df)
    IN  [total |-> Count(decided), kjd |-> Count(kjd_df),
         urm |-> Count(urm_df), on_time |-> Count(on_time_df)]

\* Mutant of LowSampleWarning: a total of 10 is still a low sample.
LowSampleWarning_Through10(total) ==
    IF total.total <= 10
      THEN Some(<<"Low sample size (n=", total.total, ")">>)
      ELSE None

LowSampleWarning(total) ==
    IF total.total < 10
      THEN Some(<<"Low sample size (n=", total.total, ")">>)
      ELSE None

\* Mutant of CompGpaRange: the range runs up to the median itself.
CompGpaRange_ToMedian(p) == Range(p.gpa_25[1], p.gpa_50[1])

\* ---- the comparison cascade of analyze_school ---------------------------
CompGpaRange(p) ==
    LET p25 == p.gpa_25[1]
        median == p.gpa_50[1]
        comp_upper == IF median - GPA_MEDIAN_EPS < p25
                        THEN p25 ELSE median - GPA_MEDIAN_EPS
    IN  Range(p25, comp_upper)

CompBox(df, lsat_range, comp_gpa_range) ==
    LET in_box == {r \in DOMAIN df :
                     /\ r.lsat >= lsat_range.lower /\ r.lsat <= lsat_range.upper
                     /\ r.gpa >= comp_gpa_range.lower
                     /\ r.gpa <= comp_gpa_range.upper}
    IN  Filter(df, in_box)

\* Mutant of CompDecided: the rows without decision stay in.
CompDecided_KeepsUndecided(comp_box) == comp_box

CompDecided(comp_box) ==
    Filter(comp_box, {r \in DOMAIN comp_box : r.result_group # "no_decision"})

CompKjdSlice(comp_decided, is_kjd) ==
    LET kjd == {r \in DOMAIN comp_decided : r.is_kjd}
    IN  IF is_kjd THEN Filter(comp_decided, kjd) ELSE comp_decided

CompUrmSlice(comp_kjd_df, is_urm) ==
    LET urm == {r \in DOMAIN comp_kjd_df : r.is_urm}
        non_urm == {r \in DOMAIN comp_kjd_df : ~r.is_urm}
    IN  IF is_urm THEN Filter(comp_kjd_df, urm)
        ELSE Filter(comp_kjd_df, non_urm)

CompCascade(comp_decided, is_kjd, is_urm) ==
    LET comp_kjd_df == CompKjdSlice(comp_decided, is_kjd)
        comp_urm_df == CompUrmSlice(comp_kjd_df, is_urm)
        comp_on_time_df == FilterOnTime(comp_urm_df)
    IN  [total |-> Count(comp_decided), kjd |-> Count(comp_kjd_df),
         urm |-> Count(comp_urm_df), on_time |-> Count(comp_on_time_df)]

\* Mutant of BelowGpa25: the floor flag is not consulted.
BelowGpa25_IgnoresFloor(applicant_gpa, p, below_gpa_floor) ==
    /\ p.gpa_25 # None
    /\ p.gpa_50 # None
    /\ applicant_gpa < p.gpa_25[1]

\* below-25th-but-above-floor: eligible for the comparison range
BelowGpa25(applicant_gpa, p, below_gpa_floor) ==
    /\ ~below_gpa_floor
    /\ p.gpa_25 # None
    /\ p.gpa_50 # None
    /\ applicant_gpa < p.gpa_25[1]

KjdLabel(is_kjd) == IF is_kjd THEN "KJD" ELSE "All (KJD skip)"

UrmLabel(is_urm) == IF is_urm THEN "URM" ELSE "Non-URM"

\* Mutant of MissingPercentiles: the warning is the low-sample one.
MissingPercentiles_LowSample(p, lsat_range, gpa_range, at_median, below_gpa_floor, below_gpa_25, is_urm, is_kjd) ==
    LET empty == GroupStats(0, 0)
    IN  [lsat_range |-> lsat_range, gpa_range |-> gpa_range,
         lsat_25 |-> p.lsat_25, lsat_50 |-> p.lsat_50,
         gpa_25 |-> p.gpa_25, gpa_50 |-> p.gpa_50,
         at_lsat_median |-> at_median,
         below_gpa_floor |-> below_gpa_floor,
         below_gpa_25 |-> below_gpa_25,
         total |-> empty, kjd |-> empty, urm |-> empty, on_time |-> empty,
         kjd_label |-> KjdLabel(is_kjd), urm_label |-> UrmLabel(is_urm),
         comp_total |-> None, comp_kjd |-> None, comp_urm |-> None,
         comp_on_time |-> None, comp_gpa_range |-> None,
         warning |-> LowSampleWarning(empty)]

\* Mutant of MissingPercentiles: both ranges are returned as None.
MissingPercentiles_NullRanges(p, lsat_range, gpa_range, at_median, below_gpa_floor, below_gpa_25, is_urm, is_kjd) ==
    LET empty == GroupStats(0, 0)
    IN  [lsat_range |-> None, gpa_range |-> None,
         lsat_25 |-> p.lsat_25, lsat_50 |-> p.lsat_50,
         gpa_25 |-> p.gpa_25, gpa_50 |-> p.gpa_50,
         at_lsat_median |-> at_median,
         below_gpa_floor |-> below_gpa_floor,
         below_gpa_25 |-> below_gpa_25,
         total |-> empty, kjd |-> empty, urm |-> empty, on_time |-> empty,
         kjd_label |-> KjdLabel(is_kjd), urm_label |-> UrmLabel(is_urm),
         comp_total |-> None, comp_kjd |-> None, comp_urm |-> None,
         comp_on_time |-> None, comp_gpa_range |-> None,
         warning |-> Some(<<"Missing percentile data">>)]

\* The early return of analyze_school when a range is missing.
MissingPercentiles(p, lsat_range, gpa_range, at_median, below_gpa_floor, below_gpa_25, is_urm, is_kjd) ==
    LET empty == GroupStats(0, 0)
    IN  [lsat_range |-> lsat_range, gpa_range |-> gpa_range,
         lsat_25 |-> p.lsat_25, lsat_50 |-> p.lsat_50,
         gpa_25 |-> p.gpa_25, gpa_50 |-> p.gpa_50,
         at_lsat_median |-> at_median,
         below_gpa_floor |-> below_gpa_floor,
         below_gpa_25 |-> below_gpa_25,
         total |-> empty, kjd |-> empty, urm |-> empty, on_time |-> empty,
         kjd_label |-> KjdLabel(is_kjd), urm_label |-> UrmLabel(is_urm),
         comp_total |-> None, comp_kjd |-> None, comp_urm |-> None,
         comp_on_time |-> None, comp_gpa_range |-> None,
         warning |-> Some(<<"Missing percentile data">>)]

AnalyzeSchool(p, df, applicant_gpa, applicant_lsat, is_urm, is_kjd) ==
    LET lb == BuildLsatRange(applicant_lsat, p, df)
        gb == BuildGpaRange(applicant_gpa, p, df)
        lsat_range == lb[1]
        at_median == lb[2]
        gpa_range == gb[1]
        below_gpa_floor == gb[2]
        below_gpa_25 == BelowGpa25(applicant_gpa, p, below_gpa_floor)
    IN  IF lsat_range = None \/ gpa_range = None
          THEN MissingPercentiles(p, lsat_range, gpa_range, at_median,
                                  below_gpa_floor, below_gpa_25, is_urm, is_kjd)
        ELSE
          LET c == Cascade(Decided(InBox(df, lsat_range[1], gpa_range[1])),
                           is_kjd, is_urm)
              comp == below_gpa_25 /\ lsat_range # None
              comp_gpa_range == CompGpaRange(p)
              cc == CompCascade(
                        CompDecided(CompBox(df, lsat_range[1], comp_gpa_range)),
                        is_kjd, is_urm)
          IN  [lsat_range |-> lsat_range, gpa_range |-> gpa_range,
               lsat_25 |-> p.lsat_25, lsat_50 |-> p.lsat_50,
               gpa_25 |-> p.gpa_25, gpa_50 |-> p.gpa_50,
               at_lsat_median |-> at_median,
               below_gpa_floor |-> below_gpa_floor,
               below_gpa_25 |-> below_gpa_25,
               total |-> c.total, kjd |-> c.kjd, urm |-> c.urm,
               on_time |-> c.on_time,
               kjd_label |-> KjdLabel(is_kjd), urm_label |-> UrmLabel(is_urm),
               comp_total |-> IF comp THEN Some(cc.total) ELSE None,
               comp_kjd |-> IF comp THEN Some(cc.kjd) ELSE None,
               comp_urm |-> IF comp THEN Some(cc.urm) ELSE None,
               comp_on_time |-> IF comp THEN Some(cc.on_time) ELSE None,
               comp_gpa_range |-> IF comp THEN Some(comp_gpa_range) ELSE None,
               warning |-> LowSampleWarning(c.total)]

\* ---- the scenarios of api_analyze (src/app.py) ---------------------------
RangeDict(r) ==
    IF r = None THEN None ELSE Some([lower |-> r[1].lower, upper |-> r[1].upper])

GroupDict(g) == [total |-> g.total, accepted |-> g.accepted, rate |-> Rate(g)]

\* Comparison of two rates given as fractions with positive denominators.
RateGeq(rate, percent) == rate[1] >= percent * rate[2]

\* Mutant of BestEstimate: the Total level is always the one reported.
BestEstimate_TotalOnly(a) ==
    [level |-> "total", label |-> "Total",
     rate |-> Rate(a.total), n |-> a.total.total]

\* Pick the best cascade level with N >= 10.
BestEstimate(a) ==
    LET levels == <<[level |-> "on_time", label |-> "On-time", stats |-> a.on_time],
                    [level |-> "urm", label |-> a.urm_label, stats |-> a.urm],
                    [level |-> "kjd", label |-> a.kjd_label, stats |-> a.kjd],
                    [level |-> "total", label |-> "Total", stats |-> a.total]>>
        qualifies == {i \in 1..4 : /\ levels[i].stats.total >= 10
                                   /\ Rate(levels[i].stats) # None}
    IN  IF qualifies = {}
          THEN [level |-> "total", label |-> "Total",
                rate |-> Rate(a.total), n |-> a.total.total]
        ELSE LET first == CHOOSE i \in qualifies : \A j \in qualifies : i <= j
             IN  [level |-> levels[first].level, label |-> levels[first].label,
                  rate |-> Rate(levels[first].stats),
                  n |-> levels[first].stats.total]

\* Mutant of Verdict: a rate equal to a threshold falls in the band below it.
Verdict_StrictThresholds(be) ==
    IF be.n < 10 \/ be.rate = None THEN "Low Data"
    ELSE IF be.rate[1][1] > 60 * be.rate[1][2] THEN "Likely"
    ELSE IF be.rate[1][1] > 40 * be.rate[1][2] THEN "Good Chance"
    ELSE IF be.rate[1][1] > 20 * be.rate[1][2] THEN "Possible"
    ELSE "Unlikely"

Verdict(be) ==
    IF be.n < 10 \/ be.rate = None THEN "Low Data"
    ELSE IF RateGeq(be.rate[1], 60) THEN "Likely"
    ELSE IF RateGeq(be.rate[1], 40) THEN "Good Chance"
    ELSE IF RateGeq(be.rate[1], 20) THEN "Possible"
    ELSE "Unlikely"

\* The description, a display string made of the two ranges, is left out.
ScenarioDict(label, a, color_key) ==
    LET be == BestEstimate(a)
    IN  [label |-> label, color_key |-> color_key,
         lsat_range |-> RangeDict(a.lsat_range),
         gpa_range |-> RangeDict(a.gpa_range),
         total |-> GroupDict(a.total), kjd |-> GroupDict(a.kjd),
         urm |-> GroupDict(a.urm), on_time |-> GroupDict(a.on_time),
         best_estimate |-> be, verdict |-> Verdict(be)]

\* The scenarios of one school in the order they are appended: the base
\* case, then the extra ones that apply.
BuildScenarios(p, df, gpa, lsat, is_urm, is_kjd, a) ==
    LET lsat_below_median == p.lsat_50 # None /\ lsat <= p.lsat_50[1]
        gpa_below_25 == a.below_gpa_25
        base_label == IF a.at_lsat_median THEN "At Median LSAT"
                      ELSE IF lsat_below_median THEN "Below Median LSAT"
                      ELSE "Base"
        base == <<ScenarioDict(base_label, a, "base")>>
        at_median ==
            IF lsat_below_median /\ ~a.at_lsat_median /\ p.lsat_50 # None
              THEN <<ScenarioDict("At Median LSAT",
                        AnalyzeSchool(p, df, gpa, p.lsat_50[1], is_urm, is_kjd),
                        "at_median")>>
              ELSE <<>>
        median_plus ==
            IF lsat_below_median /\ p.lsat_50 # None
              THEN <<ScenarioDict("Median+1 LSAT",
                        AnalyzeSchool(p, df, gpa, p.lsat_50[1] + 1, is_urm, is_kjd),
                        "median_plus")>>
              ELSE <<>>
        gpa_comp ==
            IF gpa_below_25 /\ p.gpa_25 # None
              THEN <<ScenarioDict("25th-Med GPA",
                        AnalyzeSchool(p, df, p.gpa_25[1], lsat, is_urm, is_kjd),
                        "gpa_comp")>>
              ELSE <<>>
        both_upgrade ==
            IF /\ lsat_below_median /\ gpa_below_25
               /\ p.lsat_50 # None /\ p.gpa_25 # None
              THEN <<ScenarioDict("Med+1 + 25th GPA",
                        AnalyzeSchool(p, df, p.gpa_25[1], p.lsat_50[1] + 1,
                                      is_urm, is_kjd),
                        "both_upgrade")>>
              ELSE <<>>
    IN  base \o at_median \o median_plus \o gpa_comp \o both_upgrade

\* Mutant of SortKey: an undefined rate sorts above every defined one.
SortKey_UndefinedHighest(s) ==
    IF s.best_estimate.rate # None THEN s.best_estimate.rate[1] ELSE <<101, 1>>

\* The sort key of a scenario: its best-estimate rate, -1 when undefined.
SortKey(s) ==
    IF s.best_estimate.rate # None THEN s.best_estimate.rate[1] ELSE <<-1, 1>>

KeyLeq(x, y) == x[1] * y[2] <= y[1] * x[2]

\* list.sort(key=...): ascending and stable.
RECURSIVE SortScenarios(_)
SortScenarios(s) ==
    IF s = <<>> THEN <<>>
    ELSE LET sorted == SortScenarios(SubSeq(s, 1, Len(s) - 1))
             last == s[Len(s)]
             k == Cardinality({i \in 1..Len(sorted) :
                                 KeyLeq(SortKey(sorted[i]), SortKey(last))})
         IN  SubSeq(sorted, 1, k) \o <<last>>
               \o SubSeq(sorted, k + 1, Len(sorted))

\* ---- input domains -------------------------------------------------------
Row(l, g, rg, urm, kjd, dates) ==
    [lsat |-> l, gpa |-> g, result_group |-> rg, is_urm |-> urm,
     is_kjd |-> kjd, sent_at |-> dates[1], received_at |-> dates[2],
     complete_at |-> dates[3]]

NoDates == <<None, None, None>>

Applicant(g, l, urm, kjd) ==
    [gpa |-> g, lsat |-> l, is_urm |-> urm, is_kjd |-> kjd]

\* Every percentile reference: each of the four values absent, low or high.
AllPct ==
    {SchoolPercentiles(g25, g50, l25, l50) :
        g25 \in OptPct, g50 \in OptPct, l25 \in OptPct, l50 \in OptPct}

\* The well-formed percentile reference: 25th below median, all present.
FullPct ==
    SchoolPercentiles(Some(2), Some(MaxScore - 1), Some(2), Some(MaxScore - 1))

\* Range sweep: every percentile reference and every pair of applicant
\* scores.  A row's two scores move together over the whole grid, so each
\* floor takes every value.
RangeRows ==
    {Row(v, v, rg, FALSE, FALSE, NoDates) :
        v \in Scores, rg \in {"accepted", "rejected"}}

RangeApplicants ==
    {Applicant(g, l, FALSE, FALSE) : g \in Scores, l \in Scores}

\* Box sweep: every applicant score pair and every result group; rows on
\* the four grid points the boxes of FullPct cut through.
BoxRows ==
    {Row(l, g, rg, FALSE, FALSE, NoDates) :
        l \in {2, 3}, g \in {2, 3}, rg \in ResultGroups}

BoxApplicants == RangeApplicants

\* Cascade sweep: rows inside the LSAT range, inside either the primary or
\* the comparison GPA range, with every combination of the URM, KJD and
\* on-time attributes; applicants with every combination of flags, under
\* the well-formed percentile reference.
CascadeRows ==
    {Row(3, g, rg, urm, kjd, dates) :
        g \in {1, 3}, rg \in {"accepted", "rejected", "no_decision"},
        urm \in BOOLEAN, kjd \in BOOLEAN,
        dates \in {NoDates, <<Some(ONTIME_CUTOFF + 1), None, None>>}}

CascadeApplicants ==
    {Applicant(g, 3, urm, kjd) :
        g \in {1, 3}, urm \in BOOLEAN, kjd \in BOOLEAN}

\* On-time sweep: rows in both boxes with every combination of absent and
\* present dates in the three date columns.
OnTimeRows ==
    {Row(3, 3, rg, FALSE, FALSE, <<s, r, c>>) :
        rg \in {"accepted", "rejected"},
        s \in OptDate, r \in OptDate, c \in OptDate}

OnTimeApplicants == {Applicant(g, 3, FALSE, FALSE) : g \in {1, 3}}

\* Sample-size sweep: one row leaving the cascade at each level (counted at
\* every level; late; URM; not KJD; undecided), repeated up to past the
\* minimum sample size, for applicants who are not URM.
SampleRows ==
    {Row(3, 3, "accepted", FALSE, TRUE, NoDates),
     Row(3, 3, "rejected", FALSE, TRUE, NoDates),
     Row(3, 3, "accepted", FALSE, TRUE, <<Some(ONTIME_CUTOFF + 1), None, None>>),
     Row(3, 3, "accepted", TRUE, TRUE, NoDates),
     Row(3, 3, "rejected", FALSE, FALSE, NoDates),
     Row(3, 3, "no_decision", FALSE, TRUE, NoDates)}

SampleApplicants == {Applicant(3, 3, FALSE, kjd) : kjd \in BOOLEAN}

\* Floor sweep: rows whose two scores vary independently at and above the
\* score of an applicant below both 25th percentiles, accepted or not.
FloorRows ==
    {Row(l, g, rg, FALSE, FALSE, NoDates) :
        l \in 1..3, g \in 1..3, rg \in {"accepted", "rejected", "waitlisted"}}

FloorApplicants == {Applicant(g, l, FALSE, FALSE) : g \in {1, 3}, l \in {1, 3}}

\* ---- operations ----------------------------------------------------------
\* load_percentiles at start-up; the pool is still to be read.
InitWith(P) ==
    /\ pct \in P
    /\ lsd = EmptyBag
    /\ applicant = None
    /\ analysis = None
    /\ scenarios = <<>>

\* load_lsd_data: one more cleaned row of the school's file.
LoadRow(R, max) ==
    /\ analysis = None
    /\ Length(lsd) < max
    /\ \E r \in R : lsd' = lsd (+) SetToBag({r})
    /\ UNCHANGED <<pct, applicant, analysis, scenarios>>

\* run_applicant: analyze_school for one applicant of the command line.
Analyze(A) ==
    /\ analysis = None
    /\ \E a \in A :
        /\ applicant' = Some(a)
        /\ analysis' =
             Some(AnalyzeSchool(pct, lsd, a.gpa, a.lsat, a.is_urm, a.is_kjd))
    /\ UNCHANGED <<pct, lsd, scenarios>>

\* api_analyze for one school: the base analysis, its scenarios, sorted.
ApiAnalyze(A) ==
    /\ analysis = None
    /\ \E a \in A :
        LET base == AnalyzeSchool(pct, lsd, a.gpa, a.lsat, a.is_urm, a.is_kjd)
        IN  /\ applicant' = Some(a)
            /\ analysis' = Some(base)
            /\ scenarios' =
                 SortScenarios(BuildScenarios(pct, lsd, a.gpa, a.lsat,
                                              a.is_urm, a.is_kjd, base))
    /\ UNCHANGED <<pct, lsd>>

Init == InitWith({FullPct})

Next == LoadRow(CascadeRows, MaxCascadePool) \/ Analyze(CascadeApplicants)

Spec == Init /\ [][Next]_vars

InitRange == InitWith(AllPct)

NextRange == LoadRow(RangeRows, MaxPool) \/ Analyze(RangeApplicants)

SpecRange == InitRange /\ [][NextRange]_vars

InitBox == InitWith({FullPct})

NextBox == LoadRow(BoxRows, MaxPool) \/ Analyze(BoxApplicants)

SpecBox == InitBox /\ [][NextBox]_vars

InitOnTime == InitWith({FullPct})

NextOnTime == LoadRow(OnTimeRows, MaxPool) \/ Analyze(OnTimeApplicants)

SpecOnTime == InitOnTime /\ [][NextOnTime]_vars

InitSample == InitWith({FullPct})

NextSample == LoadRow(SampleRows, MaxSamplePool) \/ Analyze(SampleApplicants)

SpecSample == InitSample /\ [][NextSample]_vars

\* The API over the range sweep, and over the sample-size sweep.
InitApi == InitWith(AllPct)

NextApi == LoadRow(RangeRows, MaxPool) \/ ApiAnalyze(RangeApplicants)

SpecApi == InitApi /\ [][NextApi]_vars

InitApiSample == InitWith({FullPct})

NextApiSample ==
    LoadRow(SampleRows, MaxSamplePool) \/ ApiAnalyze(SampleApplicants)

SpecApiSample == InitApiSample /\ [][NextApiSample]_vars

InitFloor == InitWith({FullPct})

NextFloor == LoadRow(FloorRows, MaxCascadePool) \/ Analyze(FloorApplicants)

SpecFloor == InitFloor /\ [][NextFloor]_vars

\* ---- properties ----------------------------------------------------------
Done == analysis # None

A == analysis[1]

Ap == applicant[1]

LsatPresent == pct.lsat_25 # None /\ pct.lsat_50 # None

GpaPresent == pct.gpa_25 # None /\ pct.gpa_50 # None

NoAccepted == \A r \in DOMAIN lsd : r.result_group # "accepted"

Max(a, b) == IF a >= b THEN a ELSE b

\* The number of rows of the pool that lie in the set S.
Rows(S) == BagCardinality([r \in DOMAIN lsd \cap S |-> lsd[r]])

Within(x, range) == range.lower <= x /\ x <= range.upper

RateDefined(g) ==
    /\ Rate(g) # None <=> g.total > 0
    /\ Rate(g) # None =>
         0 <= Rate(g)[1][1] /\ Rate(g)[1][1] <= 100 * Rate(g)[1][2]

Nested(t, k, u, o) ==
    /\ o.total <= u.total /\ u.total <= k.total /\ k.total <= t.total
    /\ o.accepted <= u.accepted /\ u.accepted <= k.accepted
    /\ k.accepted <= t.accepted
    /\ \A g \in {t, k, u, o} :
         0 <= g.accepted /\ g.accepted <= g.total /\ RateDefined(g)

\* C1: in every result of analyze_school the four levels are nested,
\* on_time <= urm <= kjd <= total, in their totals and in their accepted
\* counts, in the primary cascade and in the comparison cascade when there
\* is one; at every level 0 <= accepted <= total, and the rate is defined
\* exactly when total > 0 and then lies in [0, 100].
C1_CascadeNested ==
    Done =>
      /\ Nested(A.total, A.kjd, A.urm, A.on_time)
      /\ A.comp_total # None =>
           Nested(A.comp_total[1], A.comp_kjd[1], A.comp_urm[1],
                  A.comp_on_time[1])

\* Both cascades are there and each loses rows, accepted ones too, at the
\* KJD level.
C1_Witness ==
    /\ Done
    /\ A.comp_total # None
    /\ A.comp_kjd[1].total < A.comp_total[1].total
    /\ A.kjd.total < A.total.total
    /\ A.kjd.accepted < A.total.accepted

RangeOrdered(r) == r = None \/ r[1].lower <= r[1].upper

\* C2: every range the analysis produces (lsat_range, gpa_range,
\* comp_gpa_range) has lower <= upper, for every applicant, every pair of
\* present percentiles and every pool.
C2_RangesOrdered ==
    Done =>
      /\ RangeOrdered(A.lsat_range)
      /\ RangeOrdered(A.gpa_range)
      /\ RangeOrdered(A.comp_gpa_range)

\* The three ranges are there, with the 25th LSAT percentile above the
\* median, and the comparison range clamped to a single point.
C2_Witness ==
    /\ Done
    /\ A.lsat_range # None /\ A.gpa_range # None /\ A.comp_gpa_range # None
    /\ pct.lsat_25[1] > pct.lsat_50[1]
    /\ A.comp_gpa_range[1].lower = A.comp_gpa_range[1].upper
    /\ A.gpa_range[1].lower < A.gpa_range[1].upper

\* C3: with both LSAT percentiles present, whatever their values, an
\* applicant at the median gets at_median = TRUE and the range
\* [p25, max(median - 1, p25)], and every other applicant at_median = FALSE.
C3_AtMedianEveryPair ==
    Done /\ LsatPresent =>
      LET p25 == pct.lsat_25[1]
          median == pct.lsat_50[1]
      IN  IF Ap.lsat = median
            THEN /\ A.at_lsat_median
                 /\ A.lsat_range = Some(Range(p25, Max(median - 1, p25)))
            ELSE ~A.at_lsat_median

\* C4: with both LSAT percentiles present and the applicant not at the
\* median, the LSAT range is, taking the cases in order: [median, applicant]
\* above the median; [p25, applicant] from the 25th percentile up; and below
\* it [applicant, p25] when no record is accepted or the applicant is at or
\* above the floor, [applicant, floor] when the applicant is below the floor
\* (the floor being the LSAT floor of the whole pool).
C4_LsatRangeCases ==
    Done /\ LsatPresent /\ Ap.lsat # pct.lsat_50[1] =>
      LET p25 == pct.lsat_25[1]
          median == pct.lsat_50[1]
          floor == FindLsatFloor(lsd)
      IN  /\ floor = None <=> NoAccepted
          /\ A.lsat_range = Some(
               IF Ap.lsat > median THEN Range(median, Ap.lsat)
               ELSE IF Ap.lsat >= p25 THEN Range(p25, Ap.lsat)
               ELSE IF NoAccepted THEN Range(Ap.lsat, p25)
               ELSE IF Ap.lsat >= floor[1] THEN Range(Ap.lsat, p25)
               ELSE Range(Ap.lsat, floor[1]))

\* An applicant below the 25th percentile and below a floor that is not the
\* 25th percentile.
C4_Witness ==
    /\ Done /\ LsatPresent
    /\ Ap.lsat < pct.lsat_25[1] /\ Ap.lsat < pct.lsat_50[1]
    /\ ~NoAccepted
    /\ Ap.lsat < FindLsatFloor(lsd)[1]
    /\ FindLsatFloor(lsd)[1] # pct.lsat_25[1]
    /\ A.lsat_range = Some(Range(Ap.lsat, FindLsatFloor(lsd)[1]))

\* C5: with both GPA percentiles present the GPA range is, taking the cases
\* in order: [median, applicant] above the median; [p25, max(median - eps,
\* p25)] from the 25th percentile up to the median, whatever the applicant's
\* GPA; and below the 25th percentile [applicant, p25] when no record is
\* accepted or the applicant is at or above the floor, [applicant, floor]
\* when below the floor.  below_gpa_floor is TRUE in that last case only.
C5_GpaRangeCases ==
    Done /\ GpaPresent =>
      LET p25 == pct.gpa_25[1]
          median == pct.gpa_50[1]
          floor == FindGpaFloor(lsd)
          last == /\ Ap.gpa <= median /\ Ap.gpa < p25
                  /\ ~NoAccepted /\ Ap.gpa < floor[1]
      IN  /\ floor = None <=> NoAccepted
          /\ A.gpa_range = Some(
               IF Ap.gpa > median THEN Range(median, Ap.gpa)
               ELSE IF Ap.gpa >= p25
                 THEN Range(p25, Max(median - GPA_MEDIAN_EPS, p25))
               ELSE IF NoAccepted THEN Range(Ap.gpa, p25)
               ELSE IF Ap.gpa >= floor[1] THEN Range(Ap.gpa, p25)
               ELSE Range(Ap.gpa, floor[1]))
          /\ A.below_gpa_floor <=> last

\* An applicant below the 25th percentile and below a floor that is not the
\* 25th percentile: the range ends at the floor and the flag is set.
C5_Witness ==
    /\ Done /\ GpaPresent
    /\ Ap.gpa < pct.gpa_25[1] /\ Ap.gpa <= pct.gpa_50[1]
    /\ ~NoAccepted
    /\ Ap.gpa < FindGpaFloor(lsd)[1]
    /\ FindGpaFloor(lsd)[1] # pct.gpa_25[1]
    /\ A.gpa_range = Some(Range(Ap.gpa, FindGpaFloor(lsd)[1]))
    /\ A.below_gpa_floor

\* C6 as stated: in every result, below_gpa_25 is TRUE exactly when the
\* applicant's GPA is below the 25th-percentile GPA and below_gpa_floor is
\* FALSE.
C6_BelowGpa25EveryResult ==
    Done =>
      (A.below_gpa_25 <=>
         /\ pct.gpa_25 # None
         /\ Ap.gpa < pct.gpa_25[1]
         /\ ~A.below_gpa_floor)

\* C6, amended: in every result, below_gpa_25 is TRUE exactly when both GPA
\* percentiles are present, the applicant's GPA is below the 25th-percentile
\* GPA and below_gpa_floor is FALSE; the two flags are never both TRUE; and
\* with both GPA percentiles present, an applicant below the 25th percentile
\* of a pool without accepted record gets below_gpa_25 = TRUE.
C6_BelowGpa25 ==
    Done =>
      /\ A.below_gpa_25 <=>
           /\ GpaPresent
           /\ Ap.gpa < pct.gpa_25[1]
           /\ ~A.below_gpa_floor
      /\ ~(A.below_gpa_25 /\ A.below_gpa_floor)
      /\ GpaPresent /\ Ap.gpa < pct.gpa_25[1] /\ NoAccepted
           => A.below_gpa_25

\* A pool with rows but none accepted, and an applicant below the 25th
\* percentile.
C6_Witness ==
    /\ Done /\ GpaPresent
    /\ DOMAIN lsd # {} /\ NoAccepted
    /\ Ap.gpa < pct.gpa_25[1]
    /\ A.below_gpa_25 /\ ~A.below_gpa_floor

AnyPctAbsent == ~LsatPresent \/ ~GpaPresent

\* C7: if any of the four percentiles is absent, analyze_school returns a
\* result whose four levels are GroupStats(0, 0), whose warning is "Missing
\* percentile data" and which has no comparison cascade, whatever the pool.
C7_MissingPercentiles ==
    analysis # None /\ AnyPctAbsent =>
      /\ A.total = GroupStats(0, 0) /\ A.kjd = GroupStats(0, 0)
      /\ A.urm = GroupStats(0, 0) /\ A.on_time = GroupStats(0, 0)
      /\ A.warning = Some(<<"Missing percentile data">>)
      /\ A.comp_total = None /\ A.comp_kjd = None /\ A.comp_urm = None
      /\ A.comp_on_time = None /\ A.comp_gpa_range = None

\* One percentile is absent and the pool holds an accepted row that the
\* range of the other dimension contains.
C7_Witness ==
    /\ Done /\ ~GpaPresent /\ LsatPresent
    /\ \E r \in DOMAIN lsd :
         r.result_group = "accepted" /\ Within(r.lsat, A.lsat_range[1])
    /\ A.total = GroupStats(0, 0)

\* C8 as stated: when a percentile is absent, lsat_range and gpa_range of the
\* result are both null, also when only one dimension lacks a percentile.
C8_BothRangesNull ==
    Done /\ AnyPctAbsent => A.lsat_range = None /\ A.gpa_range = None

\* C8, amended: when a percentile is absent, the result's range is null in
\* each dimension that lacks a percentile, and in a dimension that has both
\* percentiles it is the range the builder of that dimension computed (not
\* null).
C8_MissingRangeNull ==
    Done /\ AnyPctAbsent =>
      /\ A.lsat_range = None <=> ~LsatPresent
      /\ A.gpa_range = None <=> ~GpaPresent
      /\ A.lsat_range = BuildLsatRange(Ap.lsat, pct, lsd)[1]
      /\ A.gpa_range = BuildGpaRange(Ap.gpa, pct, lsd)[1]

\* Only the LSAT dimension lacks a percentile: the GPA range is there.
C8_Witness ==
    /\ Done /\ ~LsatPresent /\ GpaPresent
    /\ A.lsat_range = None /\ A.gpa_range # None
    /\ A.warning = Some(<<"Missing percentile data">>)

BothRanges == Done /\ A.lsat_range # None /\ A.gpa_range # None

InPrimaryBox(r) ==
    Within(r.lsat, A.lsat_range[1]) /\ Within(r.gpa, A.gpa_range[1])

InCompBox(r) ==
    Within(r.lsat, A.lsat_range[1]) /\ Within(r.gpa, A.comp_gpa_range[1])

\* C9: with both ranges present, total.total is the number of rows of the
\* pool inside both ranges (bounds included) whose result group is not
\* no_decision, i.e. is accepted, rejected, waitlisted, hold or unknown;
\* total.accepted is the number of those that are accepted.
C9_TotalIsDecidedInBox ==
    BothRanges =>
      LET decided == {r \in DOMAIN lsd :
                        InPrimaryBox(r) /\ r.result_group # "no_decision"}
          counted == {r \in DOMAIN lsd :
                        /\ InPrimaryBox(r)
                        /\ r.result_group \in {"accepted", "rejected",
                                                "waitlisted", "hold", "unknown"}}
          accepted == {r \in DOMAIN lsd :
                         InPrimaryBox(r) /\ r.result_group = "accepted"}
      IN  /\ A.total.total = Rows(decided)
          /\ A.total.total = Rows(counted)
          /\ A.total.accepted = Rows(accepted)

\* The box holds a row on hold sitting on both upper bounds, which is
\* counted, and a row without decision, which is not.
C9_Witness ==
    /\ BothRanges
    /\ \E r \in DOMAIN lsd :
         /\ r.result_group = "hold"
         /\ r.lsat = A.lsat_range[1].upper /\ r.gpa = A.gpa_range[1].upper
    /\ \E r \in DOMAIN lsd :
         r.result_group = "no_decision" /\ InPrimaryBox(r)
    /\ A.total = GroupStats(1, 0)

\* C10: for a KJD applicant the KJD level counts exactly the decided rows in
\* the box with is_kjd; for any other applicant it equals the Total level,
\* KJD rows included.  The same holds in the comparison cascade.
C10_KjdAsymmetric ==
    BothRanges =>
      LET kjd == {r \in DOMAIN lsd :
                    /\ InPrimaryBox(r)
                    /\ r.result_group # "no_decision" /\ r.is_kjd}
          kjd_accepted == {r \in kjd : r.result_group = "accepted"}
          comp_kjd == {r \in DOMAIN lsd :
                         /\ InCompBox(r)
                         /\ r.result_group # "no_decision" /\ r.is_kjd}
          comp_kjd_accepted == {r \in comp_kjd : r.result_group = "accepted"}
      IN  /\ A.kjd = IF Ap.is_kjd
                       THEN GroupStats(Rows(kjd), Rows(kjd_accepted))
                       ELSE A.total
          /\ A.comp_total # None =>
               A.comp_kjd[1] =
                 IF Ap.is_kjd
                   THEN GroupStats(Rows(comp_kjd), Rows(comp_kjd_accepted))
                   ELSE A.comp_total[1]

\* An applicant who is not KJD, with a decided KJD row in the primary box
\* and another in the comparison box, both still counted at the KJD level.
C10_Witness ==
    /\ BothRanges /\ ~Ap.is_kjd
    /\ A.comp_total # None
    /\ \E r \in DOMAIN lsd :
         InPrimaryBox(r) /\ r.result_group # "no_decision" /\ r.is_kjd
    /\ \E r \in DOMAIN lsd :
         InCompBox(r) /\ r.result_group # "no_decision" /\ r.is_kjd
    /\ A.kjd.total >= 1 /\ A.comp_kjd[1].total >= 1

\* The rows of the pool that make up the KJD slice of the primary cascade,
\* and of the comparison cascade.
InKjdSlice(r) ==
    /\ InPrimaryBox(r) /\ r.result_group # "no_decision"
    /\ Ap.is_kjd => r.is_kjd

InCompKjdSlice(r) ==
    /\ InCompBox(r) /\ r.result_group # "no_decision"
    /\ Ap.is_kjd => r.is_kjd

\* C11: the URM level counts exactly the rows of the KJD slice whose is_urm
\* equals the applicant's is_urm, whichever way the applicant's flag goes:
\* no row with the other value is counted and no matching row is dropped.
\* The same holds in the comparison cascade.
C11_UrmBothDirections ==
    BothRanges =>
      LET urm == {r \in DOMAIN lsd : InKjdSlice(r) /\ r.is_urm = Ap.is_urm}
          other == {r \in DOMAIN lsd : InKjdSlice(r) /\ r.is_urm # Ap.is_urm}
          comp_urm == {r \in DOMAIN lsd :
                         InCompKjdSlice(r) /\ r.is_urm = Ap.is_urm}
      IN  /\ A.urm.total = Rows(urm)
          /\ A.urm.accepted = Rows({r \in urm : r.result_group = "accepted"})
          /\ A.urm.total + Rows(other) = A.kjd.total
          /\ A.comp_total # None =>
               /\ A.comp_urm[1].total = Rows(comp_urm)
               /\ A.comp_urm[1].accepted =
                    Rows({r \in comp_urm : r.result_group = "accepted"})

\* An applicant who is not URM whose KJD slice holds a URM row, which is
\* dropped, and a row that is not URM, which is kept.
C11_Witness ==
    /\ BothRanges /\ ~Ap.is_urm
    /\ \E r \in DOMAIN lsd : InKjdSlice(r) /\ r.is_urm
    /\ \E r \in DOMAIN lsd : InKjdSlice(r) /\ ~r.is_urm
    /\ A.urm.total >= 1 /\ A.urm.total < A.kjd.total

\* The rows of the pool that make up the URM slice of the primary cascade,
\* and of the comparison cascade.
InUrmSlice(r) == InKjdSlice(r) /\ r.is_urm = Ap.is_urm

InCompUrmSlice(r) == InCompKjdSlice(r) /\ r.is_urm = Ap.is_urm

\* The dates a row has.
DatesOf(r) ==
    {d \in Dates : Some(d) \in {r.sent_at, r.received_at, r.complete_at}}

\* C12: the On-time level counts exactly the rows of the URM slice that have
\* none of the three dates or whose earliest date is on or before the
\* cutoff; the rows it leaves out are exactly those that have a date and
\* have every date after the cutoff, so one date on or before the cutoff
\* keeps a row whatever its other dates.  The same holds in the comparison
\* cascade.
C12_OnTimeEarliest ==
    BothRanges =>
      LET kept(r) == \/ DatesOf(r) = {}
                     \/ \E d \in DatesOf(r) :
                          /\ \A e \in DatesOf(r) : d <= e
                          /\ d <= ONTIME_CUTOFF
          late(r) == /\ DatesOf(r) # {}
                     /\ \A d \in DatesOf(r) : d > ONTIME_CUTOFF
          on_time == {r \in DOMAIN lsd : InUrmSlice(r) /\ kept(r)}
          left_out == {r \in DOMAIN lsd : InUrmSlice(r) /\ late(r)}
          comp_on_time == {r \in DOMAIN lsd : InCompUrmSlice(r) /\ kept(r)}
      IN  /\ A.on_time.total = Rows(on_time)
          /\ A.on_time.accepted =
               Rows({r \in on_time : r.result_group = "accepted"})
          /\ A.urm.total - A.on_time.total = Rows(left_out)
          /\ A.comp_total # None =>
               /\ A.comp_on_time[1].total = Rows(comp_on_time)
               /\ A.comp_on_time[1].accepted =
                    Rows({r \in comp_on_time : r.result_group = "accepted"})

\* The URM slice holds a row sent before the cutoff and completed after it,
\* which is kept, and a row whose only date is after the cutoff, which is
\* not.
C12_Witness ==
    /\ BothRanges
    /\ \E r \in DOMAIN lsd :
         /\ InUrmSlice(r)
         /\ r.sent_at = Some(ONTIME_CUTOFF - 1)
         /\ r.complete_at = Some(ONTIME_CUTOFF + 1)
    /\ \E r \in DOMAIN lsd :
         InUrmSlice(r) /\ DatesOf(r) = {ONTIME_CUTOFF + 1}
    /\ A.urm.total = 2 /\ A.on_time.total = 1

\* The counts of the rows of the pool in the set S.
CountOf(S) ==
    GroupStats(Rows(S), Rows({r \in S : r.result_group = "accepted"}))

\* C13: with both ranges present the warning is "Low sample size (n=k)",
\* k being total.total, when total.total < 10 (0 included) and there is no
\* warning when total.total >= 10; with or without the warning the four
\* levels are the counts of their slices.
C13_LowSampleWarning ==
    BothRanges =>
      /\ A.total.total < 10 =>
           A.warning = Some(<<"Low sample size (n=", A.total.total, ")">>)
      /\ A.total.total >= 10 => A.warning = None
      /\ A.total = CountOf({r \in DOMAIN lsd :
                              InPrimaryBox(r) /\ r.result_group # "no_decision"})
      /\ A.kjd = CountOf({r \in DOMAIN lsd : InKjdSlice(r)})
      /\ A.urm = CountOf({r \in DOMAIN lsd : InUrmSlice(r)})
      /\ A.on_time =
           CountOf({r \in DOMAIN lsd :
                      /\ InUrmSlice(r)
                      /\ \/ DatesOf(r) = {}
                         \/ \E d \in DatesOf(r) : d <= ONTIME_CUTOFF})

\* Nine decided rows in the box: the warning names 9, and the levels below
\* Total are still counted (and differ from it).
C13_Witness ==
    /\ BothRanges
    /\ A.total.total = 9
    /\ A.warning = Some(<<"Low sample size (n=", 9, ")">>)
    /\ A.on_time.total >= 1 /\ A.on_time.total < A.total.total

\* The rows a level keeps whatever their dates, or because of them.
OnTimeRow(r) ==
    DatesOf(r) = {} \/ \E d \in DatesOf(r) : d <= ONTIME_CUTOFF

\* C14: the comparison cascade is there exactly when below_gpa_25 is true
\* and both ranges are present; otherwise every comp_ field is None.  When
\* it is there, comp_gpa_range is [gpa_25, max(gpa_50 - eps, gpa_25)] and
\* its four levels count the decided rows inside the primary LSAT range and
\* that GPA range, then the KJD, URM and on-time slices of those; the
\* primary levels still count the slices of the primary box.
C14_ComparisonCascade ==
    Done =>
      LET produced == /\ A.below_gpa_25
                      /\ A.lsat_range # None /\ A.gpa_range # None
          absent == /\ A.comp_total = None /\ A.comp_kjd = None
                    /\ A.comp_urm = None /\ A.comp_on_time = None
                    /\ A.comp_gpa_range = None
          comp_decided == {r \in DOMAIN lsd :
                             InCompBox(r) /\ r.result_group # "no_decision"}
          decided == {r \in DOMAIN lsd :
                        InPrimaryBox(r) /\ r.result_group # "no_decision"}
      IN  /\ ~produced => absent
          /\ produced =>
               /\ A.comp_gpa_range =
                    Some(Range(pct.gpa_25[1],
                               Max(pct.gpa_50[1] - GPA_MEDIAN_EPS,
                                   pct.gpa_25[1])))
               /\ A.comp_total = Some(CountOf(comp_decided))
               /\ A.comp_kjd =
                    Some(CountOf({r \in DOMAIN lsd : InCompKjdSlice(r)}))
               /\ A.comp_urm =
                    Some(CountOf({r \in DOMAIN lsd : InCompUrmSlice(r)}))
               /\ A.comp_on_time =
                    Some(CountOf({r \in DOMAIN lsd :
                                    InCompUrmSlice(r) /\ OnTimeRow(r)}))
               /\ A.total = CountOf(decided)
               /\ A.kjd = CountOf({r \in DOMAIN lsd : InKjdSlice(r)})
               /\ A.urm = CountOf({r \in DOMAIN lsd : InUrmSlice(r)})
               /\ A.on_time =
                    CountOf({r \in DOMAIN lsd : InUrmSlice(r) /\ OnTimeRow(r)})

\* A comparison cascade whose box holds a decided and an undecided row and
\* whose counts differ from the primary ones.
C14_Witness ==
    /\ Done /\ A.below_gpa_25 /\ A.comp_total # None
    /\ \E r \in DOMAIN lsd : InCompBox(r) /\ r.result_group = "no_decision"
    /\ A.comp_total[1].total >= 1
    /\ A.total.total >= 1
    /\ A.comp_total[1] # A.total
    /\ A.comp_gpa_range # A.gpa_range

\* The scenarios of the list with a given colour key.
WithKey(k) == {i \in 1..Len(scenarios) : scenarios[i].color_key = k}

Present(k) == Cardinality(WithKey(k)) = 1

Absent(k) == WithKey(k) = {}

\* C15: the list holds the base case once; the at-median scenario exactly
\* when the applicant's LSAT is strictly below the median; the median+1
\* scenario exactly when it is at or below the median; the 25th-percentile
\* GPA scenario exactly when below_gpa_25 of the base analysis is true; the
\* combined scenario exactly when both of the last two conditions hold; and
\* nothing else, so between 1 and 5 scenarios.
C15_ScenarioSet ==
    Done =>
      LET median == pct.lsat_50
          below == median # None /\ Ap.lsat < median[1]
          at_or_below == median # None /\ Ap.lsat <= median[1]
      IN  /\ Present("base")
          /\ IF below THEN Present("at_median") ELSE Absent("at_median")
          /\ IF at_or_below THEN Present("median_plus")
                            ELSE Absent("median_plus")
          /\ IF A.below_gpa_25 THEN Present("gpa_comp") ELSE Absent("gpa_comp")
          /\ IF at_or_below /\ A.below_gpa_25 THEN Present("both_upgrade")
                                              ELSE Absent("both_upgrade")
          /\ \A i \in 1..Len(scenarios) :
               scenarios[i].color_key \in
                 {"base", "at_median", "median_plus", "gpa_comp", "both_upgrade"}
          /\ Len(scenarios) \in 1..5
          /\ (~at_or_below /\ ~A.below_gpa_25) => Len(scenarios) = 1

\* The best estimate that reports the level named k of the scenario s.
EstimateOf(s, k, label) ==
    [level |-> k, label |-> label, rate |-> s[k].rate, n |-> s[k].total]

Qualifies(g) == g.total >= 10 /\ g.rate # None

\* C16: in every scenario the best estimate is the first of On-time, URM,
\* KJD, Total whose total is at least 10 and whose rate is defined, with
\* that level's rate and n; when none qualifies it is Total, with Total's
\* rate (possibly undefined) and n.
C16_BestEstimate ==
    Done =>
      \A i \in 1..Len(scenarios) :
        LET s == scenarios[i]
            be == s.best_estimate
        IN  /\ Qualifies(s.on_time) =>
                 be = EstimateOf(s, "on_time", "On-time")
            /\ ~Qualifies(s.on_time) /\ Qualifies(s.urm) =>
                 be = EstimateOf(s, "urm", A.urm_label)
            /\ ~Qualifies(s.on_time) /\ ~Qualifies(s.urm) /\ Qualifies(s.kjd) =>
                 be = EstimateOf(s, "kjd", A.kjd_label)
            /\ ~Qualifies(s.on_time) /\ ~Qualifies(s.urm) /\ ~Qualifies(s.kjd) =>
                 be = EstimateOf(s, "total", "Total")
            /\ be.level \in {"on_time", "urm", "kjd", "total"}
            /\ be.n = s[be.level].total /\ be.rate = s[be.level].rate

\* A base case whose URM and On-time levels are below 10 and whose KJD level
\* reaches it, so the KJD level is reported, with a rate other than Total's.
C16_Witness ==
    /\ Done /\ scenarios # <<>>
    /\ \E i \in 1..Len(scenarios) :
         LET s == scenarios[i]
         IN  /\ s.color_key = "base"
             /\ s.urm.total < 10 /\ s.kjd.total >= 10
             /\ s.total.total > s.kjd.total
             /\ s.best_estimate.level = "kjd" /\ s.best_estimate.n = 10
             /\ s.best_estimate.rate # s.total.rate

Verdicts == {"Low Data", "Likely", "Good Chance", "Possible", "Unlikely"}

\* C17: the verdict of every scenario is determined by its best estimate:
\* "Low Data" if n < 10 or the rate is undefined; otherwise "Likely" for a
\* rate of at least 60, "Good Chance" from 40 up to 60, "Possible" from 20
\* up to 40 and "Unlikely" below 20.  The rate is accepted * 100 / total.
C17_Verdict ==
    Done =>
      \A i \in 1..Len(scenarios) :
        LET be == scenarios[i].best_estimate
            v == scenarios[i].verdict
            low_data == be.n < 10 \/ be.rate = None
            num == be.rate[1][1]
            den == be.rate[1][2]
        IN  /\ v \in Verdicts
            /\ v = "Low Data" <=> low_data
            /\ ~low_data =>
                 /\ v = "Likely" <=> num >= 60 * den
                 /\ v = "Good Chance" <=> 40 * den <= num /\ num < 60 * den
                 /\ v = "Possible" <=> 20 * den <= num /\ num < 40 * den
                 /\ v = "Unlikely" <=> num < 20 * den

\* A scenario whose best estimate has n = 10 and a rate of exactly 60, which
\* is "Likely".
C17_Witness ==
    /\ Done /\ scenarios # <<>>
    /\ \E i \in 1..Len(scenarios) :
         /\ scenarios[i].best_estimate.n = 10
         /\ scenarios[i].best_estimate.rate = Some(<<600, 10>>)
         /\ scenarios[i].verdict = "Likely"

\* How many times x occurs in the sequence s.
Occurrences(x, s) == Cardinality({i \in 1..Len(s) : s[i] = x})

\* r1 <= r2 for two best-estimate rates, an undefined rate being lower than
\* every defined one.
RateLeq(r1, r2) ==
    \/ r1 = None
    \/ r1 # None /\ r2 # None /\ r1[1][1] * r2[1][2] <= r2[1][1] * r1[1][2]

\* C18: the scenario list of the response is in ascending order of
\* best-estimate rate, an undefined rate coming before every defined rate,
\* 0 included; and it holds the scenarios that were built, each as many
\* times as it was built and unaltered.
C18_SortedByRate ==
    Done =>
      LET built == BuildScenarios(pct, lsd, Ap.gpa, Ap.lsat,
                                  Ap.is_urm, Ap.is_kjd, A)
      IN  /\ \A i \in 1..(Len(scenarios) - 1) :
               RateLeq(scenarios[i].best_estimate.rate,
                       scenarios[i + 1].best_estimate.rate)
          /\ Len(scenarios) = Len(built)
          /\ \A i \in 1..Len(built) :
               Occurrences(built[i], scenarios) = Occurrences(built[i], built)

\* A list whose base case, built first, is not first in the response:
\* a scenario with an undefined rate and one with rate 0 come before it.
C18_Witness ==
    /\ Done /\ Len(scenarios) >= 3
    /\ scenarios[1].best_estimate.rate = None
    /\ scenarios[2].best_estimate.rate = Some(<<0, 1>>)
    /\ scenarios[3].color_key = "base"
    /\ scenarios[3].best_estimate.rate = Some(<<100, 1>>)

\* The second lowest of the accepted rows' scores in column c, each row
\* counting once; the only score when one row is accepted; None when none.
SecondLowest(c) ==
    LET accepted == {r \in DOMAIN lsd : r.result_group = "accepted"}
        n == Rows(accepted)
        below(v) == Rows({r \in accepted : r[c] < v})
        upto(v) == Rows({r \in accepted : r[c] <= v})
    IN  IF n = 0 THEN None
        ELSE IF n = 1 THEN Some(CHOOSE v \in {r[c] : r \in accepted} : TRUE)
        ELSE Some(CHOOSE v \in {r[c] : r \in accepted} :
                    below(v) <= 1 /\ upto(v) >= 2)

\* C19: the floor of a pool is the second lowest score among its accepted
\* rows, equal scores counting separately; the single accepted score when
\* there is one; None when there is none.  Rows that are not accepted have
\* no influence.  This holds for the LSAT floor and for the GPA floor, and
\* an applicant below the 25th percentile (and not above the median) and
\* below the floor gets the floor as the upper bound of the range.
C19_FloorFinder ==
    /\ FindLsatFloor(lsd) = SecondLowest("lsat")
    /\ FindGpaFloor(lsd) = SecondLowest("gpa")
    /\ BothRanges =>
         /\ (/\ Ap.lsat < pct.lsat_25[1] /\ Ap.lsat <= pct.lsat_50[1]
             /\ SecondLowest("lsat") # None
             /\ Ap.lsat < SecondLowest("lsat")[1]) =>
              A.lsat_range[1].upper = SecondLowest("lsat")[1]
         /\ (/\ Ap.gpa < pct.gpa_25[1] /\ Ap.gpa <= pct.gpa_50[1]
             /\ SecondLowest("gpa") # None
             /\ Ap.gpa < SecondLowest("gpa")[1]) =>
              /\ A.gpa_range[1].upper = SecondLowest("gpa")[1]
              /\ A.below_gpa_floor

\* Accepted rows with LSAT 2 and 3 and GPA 3 and 2, and a rejected row below
\* both: the lowest accepted score is skipped in each column, the rejected
\* row plays no part, and the applicant's ranges end at the floors.
C19_Witness ==
    /\ BothRanges /\ Ap.lsat = 1 /\ Ap.gpa = 1
    /\ \E r \in DOMAIN lsd : r.result_group = "accepted" /\ r.lsat = 2 /\ r.gpa = 3
    /\ \E r \in DOMAIN lsd : r.result_group = "accepted" /\ r.lsat = 3 /\ r.gpa = 2
    /\ \E r \in DOMAIN lsd : r.result_group = "rejected" /\ r.lsat = 1 /\ r.gpa = 1
    /\ FindLsatFloor(lsd) = Some(3) /\ FindGpaFloor(lsd) = Some(3)
    /\ A.lsat_range = Some(Range(1, 3)) /\ A.gpa_range = Some(Range(1, 3))

\* analyze_school run again with the applicant's GPA replaced by gpa_25.
RerunAt25 ==
    AnalyzeSchool(pct, lsd, pct.gpa_25[1], Ap.lsat, Ap.is_urm, Ap.is_kjd)

\* The re-run agrees with the comparison cascade of the base analysis, and
\* the 25th-percentile GPA scenario of the response shows the re-run.
RerunIsComparison ==
    /\ RerunAt25.gpa_range = A.comp_gpa_range
    /\ RerunAt25.lsat_range = A.lsat_range
    /\ Some(RerunAt25.total) = A.comp_total
    /\ Some(RerunAt25.kjd) = A.comp_kjd
    /\ Some(RerunAt25.urm) = A.comp_urm
    /\ Some(RerunAt25.on_time) = A.comp_on_time
    /\ \A i \in WithKey("gpa_comp") :
         /\ scenarios[i].gpa_range = RangeDict(RerunAt25.gpa_range)
         /\ scenarios[i].lsat_range = RangeDict(RerunAt25.lsat_range)
         /\ scenarios[i].total = GroupDict(RerunAt25.total)
         /\ scenarios[i].kjd = GroupDict(RerunAt25.kjd)
         /\ scenarios[i].urm = GroupDict(RerunAt25.urm)
         /\ scenarios[i].on_time = GroupDict(RerunAt25.on_time)

\* C20 as stated: whenever the base analysis has below_gpa_25 = TRUE and
\* gpa_25 <= gpa_50, running analyze_school again with the applicant's GPA
\* replaced by gpa_25 gives gpa_range equal to comp_gpa_range, the same
\* lsat_range, and total, kjd, urm, on_time equal to comp_total, comp_kjd,
\* comp_urm, comp_on_time.
C20_RerunEquivalence ==
    (Done /\ A.below_gpa_25 /\ pct.gpa_25[1] <= pct.gpa_50[1]) =>
      RerunIsComparison

\* C20 amended: the same, for the base analyses that also have an LSAT range
\* (both LSAT percentiles present), which are those with a comparison
\* cascade; without an LSAT range the base analysis has no comparison
\* cascade at all while the re-run still has a GPA range and zero counts.
C20_RerunEquivalenceWithLsatRange ==
    /\ (/\ Done /\ A.below_gpa_25 /\ pct.gpa_25[1] <= pct.gpa_50[1]
        /\ A.lsat_range # None) => RerunIsComparison
    /\ (Done /\ A.below_gpa_25 /\ A.lsat_range = None) =>
         /\ A.comp_gpa_range = None /\ A.comp_total = None
         /\ RerunAt25.gpa_range # None
         /\ RerunAt25.total = GroupStats(0, 0)

\* A base analysis below the 25th percentile whose comparison box holds a
\* row the primary box does not, and whose response carries the
\* 25th-percentile GPA scenario with the comparison counts.
C20_Witness ==
    /\ Done /\ A.below_gpa_25 /\ A.comp_total # None
    /\ pct.gpa_25[1] < pct.gpa_50[1]
    /\ A.comp_total[1].total >= 1
    /\ A.comp_total[1] # A.total
    /\ \E i \in WithKey("gpa_comp") :
         scenarios[i].total = GroupDict(A.comp_total[1])

====
